---- MODULE Spec2Model ----
(***************************************************************************)
(* Celestis 2.0: the renderer's CelestisAI object (src/src/app.js) and the *)
(* main process's settings handlers (src/src/main.js).                     *)
(*                                                                         *)
(* src/src/app.js holds two definitions of class CelestisAI (lines 18 and  *)
(* 1595).  Their chat code (sendMessage, callOpenRouterAPI, addMessage,    *)
(* clearConversation, loadSettings) is the same text; their start-up code  *)
(* differs, and the variable classDef says which definition runs.          *)
(*                                                                         *)
(* JavaScript runs every callback to completion, so an action is one       *)
(* callback: the synchronous part of a handler up to its first await, or   *)
(* the continuation that runs when the awaited promise settles.            *)
(***************************************************************************)
EXTENDS Integers, Sequences, FiniteSets, TLC

VARIABLES
    classDef,             \* 1: class CelestisAI of app.js:18, 2: of app.js:1595
    settings,             \* this.settings
    conversationHistory,  \* this.conversationHistory
    isRecording,          \* this.isRecording
    recognition,          \* this.recognition: "null" or "object"
    textInput,            \* document.getElementById('textInput').value
    chatMessages,         \* the children of #chatMessages
    calls,                \* one record per sendMessage invocation, in call order
    turnOwner,            \* turnOwner[i]: the sendMessage call that pushed conversationHistory[i]
    lastRequest,          \* the request most recently handed to fetch
    loadPending,          \* ipc.invoke('load-settings') calls of loadSettings not yet answered
    savePending,          \* ipc.invoke('save-settings') calls of saveSettings not yet answered
    ops,                  \* number of sendMessage, saveSettings and clearConversation
                          \* invocations so far
    \* start-up: initWithDelay, waitForThreeAndLoaders, init, initFallback
    pc,                   \* where initWithDelay's async function stands
    bindCount,            \* number of setupEventListeners calls
    engine,               \* the avatar display that has been set up
    initFallbackCalls,    \* number of initFallback calls
    threeModulesPartial,  \* this._threeModulesPartial
    promise,              \* the promise waitForThreeAndLoaders returned
    settled,              \* waitForThreeAndLoaders: let settled
    listening,            \* onReady is registered for 'threejs-ready'
    polling,              \* the interval pollId is active
    timerOn,              \* the timeout timeoutId is pending
    timeoutMs,            \* waitForThreeAndLoaders: const timeoutMs
    now,                  \* ms since the timers were started, while timeoutId is pending
    resolveCalls,         \* number of resolve() calls
    rejectCalls,          \* number of reject() calls
    \* the page
    threeModulesLoaded,   \* window.__threeModulesLoaded
    hasTHREE,             \* typeof THREE !== 'undefined' && THREE.WebGLRenderer
    canvas2dOk,           \* #avatarCanvas exists and gives a 2D context
    \* the main process (src/src/main.js)
    userFile,             \* settings.json in app.getPath('userData')
    repoFile,             \* settings.json next to the application folder
    lastSaved,            \* the record of the last save-settings call
    saveReturned,         \* what that call returned: "none", "true", "false"
    lastLoaded,           \* what the last load-settings call returned
    loadedSince,          \* load-settings was called after the last save-settings
    \* avatar import (loadVRM, src/src/modules/vrmLoader.js)
    avatarStatus,         \* #avatarStatus textContent
    scene,                \* this.scene is set (the 3D engine was set up)
    vrm,                  \* this.vrm: "null" or "loaded"
    vrmShown,             \* the scene of this.vrm is in this.scene and not disposed
    mixer,                \* this.mixer is set
    urlsCreated,          \* number of URL.createObjectURL calls of the avatar loading
    liveURLs,             \* the object URLs not revoked, by number
    currentOverlayURL,    \* this._currentOverlayURL, 0 for none
    overlayPresent,       \* the page has #avatarOverlay and #avatarOverlayImg
    loaders,              \* which loader classes the page has
    vrmLoads,             \* the loadVRM calls: where each stands
    forwarded,            \* number of ipc.send('forward-to-preview', ...)
    \* ensureGLTFLoader (the page's module script)
    gltfLoader,           \* window.THREE && window.THREE.GLTFLoader
    loaderSources,        \* what each strategy finds: "absent", "esm" or "umd" text
    strategy,             \* 0 before the call, the strategy tried next, Returned
    attempts,             \* the strategies reached so far and how each went
    escaped,              \* an exception left ensureGLTFLoader
    \* the preview window (main process and the preview page)
    previewWindow,        \* "null", "loading" (page not yet run) or "ready"
    forwards,             \* per forward-to-preview: its returnValue and where the buffer is
    windowsCreated,       \* number of BrowserWindows createPreviewWindow has constructed
    liveWindows,          \* the preview windows that are not closed, by number
    previewRef,           \* which window previewWindow refers to, 0 for null
    \* the settings dialog's template field and its autosave
    templateField,        \* initialTemplate.value
    autosaveListeners,    \* per 'input' listener on the field: its timer's due time, 0 for none
    inputEvents,          \* the times of the input events so far
    autosaves,            \* the invocations of save-settings by the autosave
    settingsOpens,        \* number of openSettings calls
    \* the speech recogniser of the platform
    sessionRunning,       \* a recognition session was started and has not ended
    \* the bundled avatars (main process)
    internalRead          \* the last read-internal-avatar call and what it did

chatVars == <<settings, conversationHistory, isRecording, recognition, textInput,
              chatMessages, calls, turnOwner, lastRequest, loadPending,
              savePending, ops>>

initVars == <<pc, bindCount, engine, initFallbackCalls, threeModulesPartial>>

raceVars == <<promise, settled, listening, polling, timerOn, timeoutMs, now,
              resolveCalls, rejectCalls>>

pageVars == <<threeModulesLoaded, hasTHREE, canvas2dOk>>

mainVars == <<userFile, repoFile, lastSaved, saveReturned, lastLoaded, loadedSince>>

avatarVars == <<avatarStatus, scene, vrm, vrmShown, mixer, urlsCreated, liveURLs,
                currentOverlayURL, overlayPresent, loaders, vrmLoads, forwarded>>

cascadeVars == <<gltfLoader, loaderSources, strategy, attempts, escaped>>

previewVars == <<previewWindow, forwards, windowsCreated, liveWindows, previewRef>>

autosaveVars == <<templateField, autosaveListeners, inputEvents, autosaves, settingsOpens>>

\* What the chat, the start-up and the settings handlers never touch
nonVoiceVars == <<avatarVars, cascadeVars, previewVars, autosaveVars, internalRead>>

extraVars == <<nonVoiceVars, sessionRunning>>

vars == <<classDef, chatVars, initVars, raceVars, pageVars, mainVars, extraVars>>

----------------------------------------------------------------------------
(* Bounds of the model *)

\* Invocations of the handlers that add to the chat view (sendMessage, saveSettings,
\* clearConversation) in one run
MaxOps == 3

----------------------------------------------------------------------------
(* Text.  A string is a sequence of one-character strings. *)

Space == " "

\* What the user can have in the text field, or the recogniser can transcribe.
InputTexts == { <<Space>>, <<Space, "a", Space>> }

\* JavaScript's undefined, where a string is expected.
Undefined == <<"undefined">>

RECURSIVE trimStart(_)
trimStart(s) ==
    IF s # <<>> /\ Head(s) = Space THEN trimStart(Tail(s)) ELSE s

RECURSIVE trimEnd(_)
trimEnd(s) ==
    IF s # <<>> /\ s[Len(s)] = Space THEN trimEnd(SubSeq(s, 1, Len(s) - 1)) ELSE s

\* String.prototype.trim
trim(s) == trimEnd(trimStart(s))

\* JavaScript truthiness of a string value
Truthy(s) == s # <<>> /\ s # Undefined

----------------------------------------------------------------------------
(* Settings *)

DefaultTemplate == <<"T", "0">>
ApiKeys == { <<>>, <<"k">> }
Templates == { DefaultTemplate, <<"T", "1">> }
Engines == { "three", "2d" }

\* What the user can have in the fields of the settings form when Save is clicked
FormValues ==
    { [openrouterApiKey |-> <<"k">>, initialTemplate |-> DefaultTemplate, rendererEngine |-> "three"],
      [openrouterApiKey |-> <<"k">>, initialTemplate |-> <<"T", "1">>, rendererEngine |-> "2d"],
      [openrouterApiKey |-> <<>>, initialTemplate |-> <<"T", "1">>, rendererEngine |-> "three"] }

\* settings.rendererTimeoutMs as each constructor sets it
RendererTimeoutMs1 == 15000
RendererTimeoutMs2 == 30000

\* this.settings as the constructor sets it
ConstructorSettings(c) ==
    [openrouterApiKey |-> <<>>,
     initialTemplate |-> DefaultTemplate,
     rendererEngine |-> "three",
     previousRenderer |-> "unset",
     rendererTimeoutMs |-> IF c = 1 THEN RendererTimeoutMs1 ELSE RendererTimeoutMs2]

\* What load-settings can answer besides null: a record an earlier run saved
SavedSettings ==
    { [openrouterApiKey |-> <<"k">>, initialTemplate |-> DefaultTemplate, rendererEngine |-> "three"],
      [openrouterApiKey |-> <<>>, initialTemplate |-> <<"T", "1">>, rendererEngine |-> "2d"] }

\* A merge in which the fields the object already has win
Spread_keepsCurrent(s, saved) ==
    [k \in DOMAIN s \cup DOMAIN saved |-> IF k \in DOMAIN s THEN s[k] ELSE saved[k]]

\* { ...this.settings, ...savedSettings }
Spread(s, saved) ==
    [k \in DOMAIN s \cup DOMAIN saved |-> IF k \in DOMAIN saved THEN saved[k] ELSE s[k]]

----------------------------------------------------------------------------
(* The chat view *)

\* The fixed texts the handlers show, each a string of the source kept whole
NeedKeyText == <<"Please set your OpenRouter API key in settings.">>
AiErrorText == <<"Error: Could not get AI response. Please check your API key and try again.">>
ClearedText == <<"Conversation cleared. The AI will continue using the initial template.">>
SavedText == <<"Settings saved successfully!">>
SaveErrorText == <<"Error saving settings">>

\* addMessage(content, type): appends one child to #chatMessages
addMessage(view, content, type) == Append(view, [type |-> type, content |-> content])

----------------------------------------------------------------------------
(* The chat-completion endpoint: what one fetch can come back with *)

Reply == <<"r">>

\* fetched: fetch resolved (FALSE: it rejected); ok: response.ok; json: response.json()
\* resolved; choices / message: data.choices[0] and data.choices[0].message exist;
\* content: data.choices[0].message.content
Responses ==
    { [fetched |-> FALSE, ok |-> FALSE, json |-> FALSE, choices |-> FALSE, message |-> FALSE, content |-> Undefined],
      [fetched |-> TRUE,  ok |-> FALSE, json |-> TRUE,  choices |-> FALSE, message |-> FALSE, content |-> Undefined],
      [fetched |-> TRUE,  ok |-> TRUE,  json |-> FALSE, choices |-> FALSE, message |-> FALSE, content |-> Undefined],
      [fetched |-> TRUE,  ok |-> TRUE,  json |-> TRUE,  choices |-> FALSE, message |-> FALSE, content |-> Undefined],
      [fetched |-> TRUE,  ok |-> TRUE,  json |-> TRUE,  choices |-> TRUE,  message |-> FALSE, content |-> Undefined],
      [fetched |-> TRUE,  ok |-> TRUE,  json |-> TRUE,  choices |-> TRUE,  message |-> TRUE,  content |-> Undefined],
      [fetched |-> TRUE,  ok |-> TRUE,  json |-> TRUE,  choices |-> TRUE,  message |-> TRUE,  content |-> Reply] }

\* callOpenRouterAPI after the fetch: whether it throws (the promise it returned rejects)
callOpenRouterAPIThrows(r) ==
    \/ ~r.fetched                 \* await fetch(...) rejects
    \/ ~r.ok                      \* throw new Error('HTTP error! ...')
    \/ ~r.json                    \* await response.json() rejects
    \/ ~r.choices                 \* data.choices[0] of undefined / undefined.message
    \/ ~r.message                 \* undefined.content

\* callOpenRouterAPI's return value when it does not throw
callOpenRouterAPIResult(r) == r.content

\* Mutant: the system prompt is the built-in template, not the one of the settings
RequestMessages_builtinPrompt(s, h) ==
    <<[role |-> "system", content |-> DefaultTemplate]>> \o h

\* callOpenRouterAPI's message list: the system prompt, then the history
RequestMessages(s, h) ==
    <<[role |-> "system", content |-> s.initialTemplate]>> \o h

----------------------------------------------------------------------------
(* Start-up helpers                                                        *)

\* The fallback of waitForThreeAndLoaders when settings.rendererTimeoutMs is no number
DefaultTimeoutMs == 15000

\* The period of the readiness poll
PollMs == 150

\* waitForThreeAndLoaders: const timeoutMs
TimeoutMs(s) ==
    IF "rendererTimeoutMs" \in DOMAIN s THEN s.rendererTimeoutMs ELSE DefaultTimeoutMs

\* waitForThreeAndLoaders: moduleReady()
moduleReady(loaded, three) == loaded \/ three

\* The display init sets up.  The first class definition enforces the 2D engine;
\* the second follows settings.rendererEngine and falls back to 2D without THREE.
initEngine(c, s, three, canvasOk) ==
    IF c = 2 /\ s.rendererEngine = "three" /\ three THEN "three"
    ELSE IF canvasOk THEN "2d"
    ELSE "fallbackDisplay"

----------------------------------------------------------------------------
(* The chat handlers (bound by bindEvents; the same text in both class     *)
(* definitions).  calls is the model's record of the sendMessage           *)
(* invocations: calls[c].state says how call c went, calls[c].fetches how  *)
(* often it called fetch.                                                  *)

\* Mutant: the API-key guard is missing
sendMessageGuard_noKeyCheck(text, s) ==
    IF trim(text) = <<>> THEN "empty" ELSE "send"

\* The guards at the head of sendMessage: which way a call goes
sendMessageGuard(text, s) ==
    IF trim(text) = <<>> THEN "empty"                       \* if (!message) return
    ELSE IF ~Truthy(s.openrouterApiKey) THEN "noKey"        \* if (!this.settings.openrouterApiKey)
    ELSE "send"

\* callOpenRouterAPI up to its await: the request it hands to fetch for call c
callOpenRouterAPI(c, s, h) ==
    [call |-> c, key |-> s.openrouterApiKey, messages |-> RequestMessages(s, h)]

NoRequest == [call |-> 0, key |-> <<>>, messages |-> <<>>]

\* sendMessage up to its await: the guards, the user turn, the request
sendMessage ==
    /\ bindCount > 0                     \* bindEvents has bound the handler
    /\ ops < MaxOps
    /\ ops' = ops + 1
    /\ LET c == Len(calls) + 1
           message == trim(textInput)
           way == sendMessageGuard(textInput, settings)
       IN
       \/ /\ way = "empty"
          /\ calls' = Append(calls, [state |-> "empty", fetches |-> 0])
          /\ UNCHANGED <<textInput, chatMessages, conversationHistory, turnOwner, lastRequest>>
       \/ /\ way = "noKey"
          /\ chatMessages' = addMessage(chatMessages, NeedKeyText, "system")
          /\ calls' = Append(calls, [state |-> "noKey", fetches |-> 0])
          /\ UNCHANGED <<textInput, conversationHistory, turnOwner, lastRequest>>
       \/ /\ way = "send"
          /\ textInput' = <<>>
          /\ chatMessages' = addMessage(chatMessages, message, "user")
          /\ conversationHistory' =
                 Append(conversationHistory, [role |-> "user", content |-> message])
          /\ turnOwner' = Append(turnOwner, c)
          /\ lastRequest' = callOpenRouterAPI(c, settings, conversationHistory')
          /\ calls' = Append(calls, [state |-> "pending", fetches |-> 1])
    /\ UNCHANGED <<classDef, settings, isRecording, recognition,
                   loadPending, savePending>>
    /\ UNCHANGED <<initVars, raceVars, pageVars, mainVars, extraVars>>

\* sendMessage after its await, the try block: callOpenRouterAPI returned for call c
sendMessageThen(c, r) ==
    LET response == callOpenRouterAPIResult(r) IN
    /\ chatMessages' = addMessage(chatMessages, response, "ai")
    /\ conversationHistory' =
           Append(conversationHistory, [role |-> "assistant", content |-> response])
    /\ turnOwner' = Append(turnOwner, c)
    /\ calls' = [calls EXCEPT ![c].state = "answered"]
    /\ UNCHANGED lastRequest

\* Mutant: the catch block takes the unanswered user turn back out of the history
sendMessageCatch_dropsUserTurn(c, r) ==
    /\ chatMessages' = addMessage(chatMessages, AiErrorText, "system")
    /\ calls' = [calls EXCEPT ![c].state = "failed"]
    /\ conversationHistory' =
           SubSeq(conversationHistory, 1, Len(conversationHistory) - 1)
    /\ turnOwner' = SubSeq(turnOwner, 1, Len(turnOwner) - 1)
    /\ UNCHANGED lastRequest

\* Mutant: the catch block tries the request once more before giving up
sendMessageCatch_retry(c, r) ==
    IF calls[c].fetches < 2
    THEN /\ calls' = [calls EXCEPT ![c].fetches = @ + 1]
         /\ UNCHANGED <<chatMessages, conversationHistory, turnOwner, lastRequest>>
    ELSE /\ chatMessages' = addMessage(chatMessages, AiErrorText, "system")
         /\ calls' = [calls EXCEPT ![c].state = "failed"]
         /\ UNCHANGED <<conversationHistory, turnOwner, lastRequest>>

\* sendMessage after its await, the catch block: callOpenRouterAPI threw for call c
sendMessageCatch(c, r) ==
    /\ chatMessages' = addMessage(chatMessages, AiErrorText, "system")
    /\ calls' = [calls EXCEPT ![c].state = "failed"]
    /\ UNCHANGED <<conversationHistory, turnOwner, lastRequest>>

\* The fetch of call c comes back with r and sendMessage resumes
sendMessageResume(c, r) ==
    /\ calls[c].state = "pending"
    /\ IF callOpenRouterAPIThrows(r) THEN sendMessageCatch(c, r) ELSE sendMessageThen(c, r)
    /\ UNCHANGED <<classDef, settings, isRecording, recognition, textInput,
                   loadPending, savePending, ops>>
    /\ UNCHANGED <<initVars, raceVars, pageVars, mainVars, extraVars>>

clearConversation ==
    /\ bindCount > 0                     \* bindEvents has bound the handler
    /\ ops < MaxOps
    /\ ops' = ops + 1
    /\ conversationHistory' = <<>>
    /\ turnOwner' = <<>>
    /\ chatMessages' = addMessage(<<>>, ClearedText, "system")   \* innerHTML = '', then addMessage
    /\ UNCHANGED <<classDef, settings, isRecording, recognition, textInput,
                   calls, lastRequest, loadPending, savePending>>
    /\ UNCHANGED <<initVars, raceVars, pageVars, mainVars, extraVars>>

\* The user edits the text field
typeText(t) ==
    /\ textInput' = t
    /\ UNCHANGED <<classDef, settings, conversationHistory, isRecording, recognition,
                   chatMessages, calls, turnOwner, lastRequest, loadPending,
                   savePending, ops>>
    /\ UNCHANGED <<initVars, raceVars, pageVars, mainVars, extraVars>>

----------------------------------------------------------------------------
(* Settings handlers of the renderer.  The main process is the environment *)
(* here: it answers an invoke with any value its handlers can return.      *)

\* saveSettings up to its await: the form is copied into this.settings
saveSettings(form) ==
    /\ bindCount > 0                     \* bindEvents has bound the handler
    /\ ops < MaxOps
    /\ ops' = ops + 1
    /\ settings' = [settings EXCEPT !.openrouterApiKey = form.openrouterApiKey,
                                    !.initialTemplate = form.initialTemplate,
                                    !.rendererEngine = form.rendererEngine]
    /\ savePending' = savePending + 1
    /\ UNCHANGED <<classDef, conversationHistory, isRecording, recognition, textInput,
                   chatMessages, calls, turnOwner, lastRequest, loadPending>>
    /\ UNCHANGED <<initVars, raceVars, pageVars, mainVars, extraVars>>

\* saveSettings after its await, the try block and the catch block: what the
\* invoke resolved with is not looked at
saveSettingsAfterInvoke(resolved) ==
    /\ savePending > 0
    /\ savePending' = savePending - 1
    /\ chatMessages' = IF resolved THEN addMessage(chatMessages, SavedText, "system")
                       ELSE addMessage(chatMessages, SaveErrorText, "system")
    /\ UNCHANGED <<classDef, settings, conversationHistory, isRecording, recognition,
                   textInput, calls, turnOwner, lastRequest, loadPending, ops>>

\* saveSettings after its await: the invoke resolved (with true or false) or rejected
saveSettingsResume(resolved) ==
    /\ saveSettingsAfterInvoke(resolved)
    /\ UNCHANGED <<initVars, raceVars, pageVars, mainVars, extraVars>>

\* init after its await of loadSettings: it ends, and so does initWithDelay
initResume(p) ==
    IF p \in {"init_try", "init_timeout", "init_partial"} THEN "done" ELSE p

\* loadSettings after its await, the invoke answered null or rejected
loadSettingsNull ==
    /\ loadPending > 0
    /\ pc' = initResume(pc)
    /\ loadPending' = loadPending - 1
    /\ UNCHANGED <<classDef, settings, conversationHistory, isRecording, recognition,
                   textInput, chatMessages, calls, turnOwner, lastRequest,
                   savePending, ops>>
    /\ UNCHANGED <<bindCount, engine, initFallbackCalls, threeModulesPartial, raceVars, pageVars, mainVars, extraVars>>

\* loadSettings after its await, the invoke answered a record
loadSettingsResume(saved) ==
    /\ loadPending > 0
    /\ pc' = initResume(pc)
    /\ loadPending' = loadPending - 1
    /\ settings' = Spread(settings, saved)
    /\ UNCHANGED <<classDef, conversationHistory, isRecording, recognition, textInput,
                   chatMessages, calls, turnOwner, lastRequest, savePending, ops>>
    /\ UNCHANGED <<bindCount, engine, initFallbackCalls, threeModulesPartial, raceVars, pageVars, mainVars, extraVars>>

----------------------------------------------------------------------------
(* Speech recognition, as far as it touches the chat state (#voiceStatus   *)
(* is output only)                                                         *)

\* Mutant: toggleVoiceRecording that starts the recogniser without noting it
toggleVoiceRecording_forgetsFlag ==
    /\ bindCount > 0
    /\ IF recognition # "object"
       THEN UNCHANGED <<isRecording, sessionRunning>>
       ELSE IF isRecording
       THEN UNCHANGED <<isRecording, sessionRunning>>
       ELSE /\ sessionRunning' = TRUE
            /\ UNCHANGED isRecording
    /\ UNCHANGED <<classDef, settings, conversationHistory, recognition, textInput,
                   chatMessages, calls, turnOwner, lastRequest, loadPending,
                   savePending, ops>>
    /\ UNCHANGED <<initVars, raceVars, pageVars, mainVars, nonVoiceVars>>

\* toggleVoiceRecording: without a recogniser only #voiceStatus changes;
\* while recording it asks the session to stop, which ends with onend;
\* otherwise it starts a session and sets the flag
toggleVoiceRecording ==
    /\ bindCount > 0                     \* bindEvents has bound the handler
    /\ IF recognition # "object"
       THEN UNCHANGED <<isRecording, sessionRunning>>
       ELSE IF isRecording
       THEN UNCHANGED <<isRecording, sessionRunning>>
       ELSE /\ sessionRunning' = TRUE
            /\ isRecording' = TRUE
    /\ UNCHANGED <<classDef, settings, conversationHistory, recognition, textInput,
                   chatMessages, calls, turnOwner, lastRequest, loadPending,
                   savePending, ops>>
    /\ UNCHANGED <<initVars, raceVars, pageVars, mainVars, nonVoiceVars>>

\* An onresult that also submits the transcript as a user turn
recognition_onresult_autoSend(transcript) ==
    /\ recognition = "object"
    /\ sessionRunning
    /\ textInput' = transcript
    /\ conversationHistory' =
           Append(conversationHistory, [role |-> "user", content |-> trim(transcript)])
    /\ UNCHANGED <<classDef, settings, isRecording, recognition,
                   chatMessages, calls, turnOwner, lastRequest, loadPending,
                   savePending, ops>>
    /\ UNCHANGED <<initVars, raceVars, pageVars, mainVars, extraVars>>

\* recognition.onresult: the transcript goes into the text field
recognition_onresult(transcript) ==
    /\ recognition = "object"
    /\ sessionRunning
    /\ textInput' = transcript
    /\ UNCHANGED <<classDef, settings, conversationHistory, isRecording, recognition,
                   chatMessages, calls, turnOwner, lastRequest, loadPending,
                   savePending, ops>>
    /\ UNCHANGED <<initVars, raceVars, pageVars, mainVars, extraVars>>

\* recognition.onend: the session is over, by stop() or by itself
recognition_onend ==
    /\ recognition = "object"
    /\ sessionRunning
    /\ sessionRunning' = FALSE
    /\ isRecording' = FALSE
    /\ UNCHANGED <<classDef, settings, conversationHistory, recognition, textInput,
                   chatMessages, calls, turnOwner, lastRequest, loadPending,
                   savePending, ops>>
    /\ UNCHANGED <<initVars, raceVars, pageVars, mainVars, nonVoiceVars>>

----------------------------------------------------------------------------
(* Avatar import: loadVRM, loadVRMFromBuffer, load2DFromBuffer,            *)
(* _handleLoadedVRM (src/src/app.js) and loadVRMFromBuffer of              *)
(* src/src/modules/vrmLoader.js.  vrmLoads[c] says where call c of loadVRM *)
(* stands (pc), why it failed (cause) and whether a loader still owes it a *)
(* callback (loaderBusy).                                                  *)

\* Number of loadVRM calls
MaxLoads == 2

LoadingStatus == "Loading Avatar..."
NotReadyStatus == "3D engine not ready - cannot load VRM model"
ErrorStatus == "Error loading avatar: "
NoGeometryStatus == "VRM file contains no valid 3D geometry"
LoadedStatus == "VRM Avatar Loaded: "
Loaded2DStatus == "2D Image Loaded: "

\* buffer.length of the files read-vrm-file can return
BufferLengths == {0, 3, 4}

\* What a loader can give its callbacks: an error, a gltf without a scene,
\* a scene without geometry, a scene whose handling throws, a good scene
LoaderResults == {"error", "noScene", "emptyScene", "throwingScene", "scene"}

\* vrmLoader.js validateVRMFile: only a buffer shorter than 4 bytes is refused
validateVRMFile(len) == len >= 4

ParseStages == {"parseVRM", "parseGLTF"}

\* vrmLoader.js: the loader tried first, and the one tried after
\* THREE.VRMLoader gave no scene; "none" is the throw of
\* 'No suitable loader available'
firstLoader(l) ==
    IF l.THREE_VRM /\ l.VRMLoader THEN "parseVRM"
    ELSE IF l.GLTFLoader THEN "parseGLTF"
    ELSE "none"

nextLoader(l) == IF l.GLTFLoader THEN "parseGLTF" ELSE "none"

avatarFrame ==
    UNCHANGED <<classDef, chatVars, initVars, raceVars, pageVars, mainVars, scene, loaders,
                overlayPresent, cascadeVars, previewVars, autosaveVars, sessionRunning, internalRead>>

\* No object URL is created or revoked
urlsKept == UNCHANGED <<urlsCreated, liveURLs, currentOverlayURL>>

\* updateAvatarOverlay(null) on the unrevoked URLs live: without the
\* overlay elements it returns at once, else it revokes the current URL
hideOverlay(live) ==
    IF overlayPresent /\ currentOverlayURL # 0
    THEN /\ liveURLs' = live \ {currentOverlayURL}
         /\ currentOverlayURL' = 0
    ELSE /\ liveURLs' = live
         /\ UNCHANGED currentOverlayURL

\* updateAvatarOverlay(u) for the URL u of an image that has loaded
showOverlay(u) ==
    IF ~overlayPresent
    THEN UNCHANGED <<liveURLs, currentOverlayURL>>
    ELSE /\ liveURLs' = IF currentOverlayURL # 0 /\ currentOverlayURL # u
                        THEN liveURLs \ {currentOverlayURL}
                        ELSE liveURLs
         /\ currentOverlayURL' = u

\* loadVRM's catch block for call c, the calls being loads when it runs
loadVRMCatch_rethrows(c, cause, loads) ==
    /\ vrmLoads' = [loads EXCEPT ![c] = [@ EXCEPT !.pc = "rejected", !.cause = cause]]
    /\ UNCHANGED avatarStatus

loadVRMCatch(c, cause, loads) ==
    /\ vrmLoads' = [loads EXCEPT ![c] = [@ EXCEPT !.pc = "failed", !.cause = cause]]
    /\ avatarStatus' = ErrorStatus

\* ipc.on('vrm-selected'): loadVRM up to its await of read-vrm-file
loadVRM ==
    /\ Len(vrmLoads) < MaxLoads
    /\ IF ~scene
       THEN /\ avatarStatus' = NotReadyStatus
            /\ vrmLoads' = Append(vrmLoads,
                                  [pc |-> "noScene", cause |-> "none", loaderBusy |-> FALSE,
                                   url |-> 0])
       ELSE /\ avatarStatus' = LoadingStatus
            /\ vrmLoads' = Append(vrmLoads,
                                  [pc |-> "reading", cause |-> "none", loaderBusy |-> FALSE,
                                   url |-> 0])
    /\ UNCHANGED <<vrm, vrmShown, mixer, forwarded>>
    /\ urlsKept
    /\ avatarFrame

\* read-vrm-file rejected (fs.readFileSync threw in the main process)
readRejected(c) ==
    /\ vrmLoads[c].pc = "reading"
    /\ loadVRMCatch(c, "read", vrmLoads)
    /\ UNCHANGED <<vrm, vrmShown, mixer, forwarded>>
    /\ urlsKept
    /\ avatarFrame

\* read-vrm-file answered a buffer of len bytes: loadVRMFromBuffer up to
\* its first await
readResolved(c, len) ==
    /\ vrmLoads[c].pc = "reading"
    /\ LET u == urlsCreated + 1 IN
       IF settings.rendererEngine = "2d"
       THEN /\ vrmLoads' = [vrmLoads EXCEPT ![c] = [@ EXCEPT !.pc = "image", !.url = u]]
            /\ urlsCreated' = u          \* load2DFromBuffer: createObjectURL
            /\ liveURLs' = liveURLs \cup {u}
            /\ UNCHANGED avatarStatus
       ELSE IF ~loaders.module
       THEN /\ loadVRMCatch(c, "noModule", vrmLoads)
            /\ UNCHANGED <<urlsCreated, liveURLs>>
       ELSE IF ~validateVRMFile(len)     \* vrmLoader.js: created, and revoked in finally
       THEN /\ loadVRMCatch(c, "shortBuffer", vrmLoads)
            /\ urlsCreated' = u
            /\ UNCHANGED liveURLs
       ELSE IF firstLoader(loaders) = "none"
       THEN /\ loadVRMCatch(c, "noLoader", vrmLoads)
            /\ urlsCreated' = u
            /\ UNCHANGED liveURLs
       ELSE /\ vrmLoads' = [vrmLoads EXCEPT ![c] = [@ EXCEPT !.pc = firstLoader(loaders),
                                                             !.loaderBusy = TRUE,
                                                             !.url = u]]
            /\ urlsCreated' = u
            /\ liveURLs' = liveURLs \cup {u}
            /\ UNCHANGED avatarStatus
    /\ UNCHANGED <<vrm, vrmShown, mixer, forwarded, currentOverlayURL>>
    /\ avatarFrame

\* load2DFromBuffer: the Image's onload
imageLoaded(c) ==
    /\ vrmLoads[c].pc = "image"
    /\ vrmLoads' = [vrmLoads EXCEPT ![c].pc = "loaded2d"]
    /\ avatarStatus' = Loaded2DStatus
    /\ forwarded' = forwarded + 1
    /\ showOverlay(vrmLoads[c].url)
    /\ UNCHANGED <<vrm, vrmShown, mixer, urlsCreated>>
    /\ avatarFrame

\* load2DFromBuffer: the Image's onerror
imageError(c) ==
    /\ vrmLoads[c].pc = "image"
    /\ loadVRMCatch(c, "image", vrmLoads)
    /\ UNCHANGED <<vrm, vrmShown, mixer, forwarded>>
    /\ urlsKept                         \* the catch block only rethrows
    /\ avatarFrame

\* _handleLoadedVRM(result) for call c and what follows it in loadVRM
handleLoadedVRM(c, result, loads) ==
    CASE result = "noScene" ->           \* scene.traverse throws, after the removal
             /\ loadVRMCatch(c, "handler", loads)
             /\ vrmShown' = FALSE
             /\ mixer' = FALSE
             /\ UNCHANGED <<vrm, forwarded>>
      [] result = "throwingScene" ->     \* vrm.humanoid throws, after scene.add
             /\ loadVRMCatch(c, "handler", loads)
             /\ vrm' = "loaded"
             /\ vrmShown' = TRUE
             /\ mixer' = FALSE
             /\ UNCHANGED forwarded
      [] result = "emptyScene" ->
             /\ vrmLoads' = [loads EXCEPT ![c].pc = "noGeometry"]
             /\ avatarStatus' = NoGeometryStatus
             /\ forwarded' = forwarded + 1
             /\ vrmShown' = FALSE
             /\ mixer' = FALSE
             /\ UNCHANGED vrm
      [] result = "scene" ->
             /\ vrmLoads' = [loads EXCEPT ![c].pc = "loaded"]
             /\ avatarStatus' = LoadedStatus
             /\ vrm' = "loaded"
             /\ vrmShown' = TRUE
             /\ mixer' \in BOOLEAN       \* an AnimationMixer for a humanoid
             /\ forwarded' = forwarded + 1

\* The loader calls back for call c: onLoad with a gltf, or onError.  After
\* the 30 s timer has rejected, the callback changes nothing.
loaderCallback(c, result) ==
    /\ vrmLoads[c].loaderBusy
    /\ LET loads == [vrmLoads EXCEPT ![c].loaderBusy = FALSE]
           stage == vrmLoads[c].pc
           revoked == liveURLs \ {vrmLoads[c].url}      \* vrmLoader.js: finally
       IN  IF stage \notin ParseStages
           THEN /\ vrmLoads' = loads
                /\ UNCHANGED <<avatarStatus, vrm, vrmShown, mixer, forwarded>>
                /\ UNCHANGED <<liveURLs, currentOverlayURL>>
           ELSE IF result = "error"
           THEN /\ loadVRMCatch(c, "parser", loads)
                /\ UNCHANGED <<vrm, vrmShown, mixer, forwarded>>
                /\ liveURLs' = revoked
                /\ UNCHANGED currentOverlayURL
           ELSE IF stage = "parseVRM" /\ result = "noScene"
           THEN IF nextLoader(loaders) = "none"
                THEN /\ loadVRMCatch(c, "noLoader", loads)
                     /\ UNCHANGED <<vrm, vrmShown, mixer, forwarded>>
                     /\ liveURLs' = revoked
                     /\ UNCHANGED currentOverlayURL
                ELSE /\ vrmLoads' = [vrmLoads EXCEPT ![c].pc = nextLoader(loaders)]
                     /\ UNCHANGED <<avatarStatus, vrm, vrmShown, mixer, forwarded>>
                     /\ UNCHANGED <<liveURLs, currentOverlayURL>>
           ELSE /\ handleLoadedVRM(c, result, loads)
                /\ IF result \in {"scene", "throwingScene"}
                   THEN hideOverlay(revoked)
                   ELSE /\ liveURLs' = revoked
                        /\ UNCHANGED currentOverlayURL
    /\ UNCHANGED urlsCreated
    /\ avatarFrame

\* The 30 s timer of a parse fires before the loader has called back
parseTimeout(c) ==
    /\ vrmLoads[c].pc \in ParseStages
    /\ vrmLoads[c].loaderBusy
    /\ loadVRMCatch(c, "timeout", vrmLoads)
    /\ UNCHANGED <<vrm, vrmShown, mixer, forwarded>>
    /\ liveURLs' = liveURLs \ {vrmLoads[c].url}       \* vrmLoader.js: finally
    /\ UNCHANGED <<urlsCreated, currentOverlayURL>>
    /\ avatarFrame

\* No avatar import has been asked for
AvatarIdle ==
    /\ avatarStatus = ""
    /\ scene = FALSE
    /\ vrm = "null"
    /\ vrmShown = FALSE
    /\ mixer = FALSE
    /\ urlsCreated = 0
    /\ liveURLs = {}
    /\ currentOverlayURL = 0
    /\ overlayPresent = TRUE
    /\ loaders = [module |-> FALSE, THREE_VRM |-> FALSE, VRMLoader |-> FALSE,
                  GLTFLoader |-> FALSE]
    /\ vrmLoads = <<>>
    /\ forwarded = 0

----------------------------------------------------------------------------
(* ensureGLTFLoader: five strategies in a row, each inside its own try and *)
(* the whole inside an outer try.  A strategy finds no source ("absent":   *)
(* nothing provided by preload, or a fetch that is not ok), an ES module   *)
(* text ("esm") that it imports through a blob, or a classic script        *)
(* ("umd") that it injects.                                                *)

NumStrategies == 5
Returned == NumStrategies + 1

SourceKinds == {"absent", "esm", "umd"}

\* How strategy k can go over a source of the given kind.  Strategy 1
\* imports when its sources are there; strategy 2 passes localJsmUrl, which
\* is declared in strategy 3's block, so its import of an ES module text
\* always throws; an import can come back without a loader when neither a
\* three.js source nor window.THREE is there.
strategyOutcomes(k, kind) ==
    IF kind = "absent" THEN {"skipped"}
    ELSE IF k = 1 THEN {"attached", "throws"}
    ELSE IF k = 2 /\ kind = "esm" THEN {"throws"}
    ELSE {"attached", "noAttach", "throws"}

cascadeFrame ==
    UNCHANGED <<classDef, chatVars, initVars, raceVars, pageVars, mainVars, avatarVars,
                loaderSources, previewVars, autosaveVars, sessionRunning, internalRead>>

\* The call of ensureGLTFLoader: it returns at once when the loader is there
ensureGLTFLoader ==
    /\ strategy = 0
    /\ strategy' = IF gltfLoader THEN Returned ELSE 1
    /\ UNCHANGED <<gltfLoader, attempts, escaped>>
    /\ cascadeFrame

\* Strategy k with the given outcome, where an exception leaves the function
tryStrategy_throwEscapes(k, outcome) ==
    /\ strategy = k
    /\ k \in 1..NumStrategies
    /\ outcome \in strategyOutcomes(k, loaderSources[k])
    /\ attempts' = Append(attempts, [k |-> k, outcome |-> outcome])
    /\ gltfLoader' = (outcome = "attached")
    /\ strategy' = IF outcome \in {"attached", "throws"} THEN Returned ELSE k + 1
    /\ escaped' = (outcome = "throws")
    /\ cascadeFrame

\* Strategy k with the given outcome
tryStrategy(k, outcome) ==
    /\ strategy = k
    /\ k \in 1..NumStrategies
    /\ outcome \in strategyOutcomes(k, loaderSources[k])
    /\ attempts' = Append(attempts, [k |-> k, outcome |-> outcome])
    /\ gltfLoader' = (outcome = "attached")
    /\ strategy' = IF outcome = "attached" THEN Returned ELSE k + 1
    /\ UNCHANGED escaped
    /\ cascadeFrame

\* ensureGLTFLoader has not been called
CascadeIdle ==
    /\ gltfLoader = FALSE
    /\ loaderSources = [k \in 1..NumStrategies |-> "absent"]
    /\ strategy = 0
    /\ attempts = <<>>
    /\ escaped = FALSE

----------------------------------------------------------------------------
(* The preview window: forward-to-preview in the main process, the page    *)
(* of the window, whose script registers the 'preview-load-buffer'         *)
(* listener when it runs, and the delivery of what webContents.send sent   *)

MaxForwards == 3
MaxWindows == 3

\* !previewWindow || previewWindow.isDestroyed()
NoLiveWindow == previewWindow = "null" \/ previewRef \notin liveWindows

\* createPreviewWindow: it catches its own exceptions, so that a failed
\* construction leaves previewWindow as it was; loadFile only starts the load
createPreviewWindow(w, createOk) == IF createOk THEN "loading" ELSE w

\* new BrowserWindow(...) succeeded: previewWindow refers to the new window
windowCreated ==
    /\ windowsCreated' = windowsCreated + 1
    /\ liveWindows' = liveWindows \cup {windowsCreated + 1}
    /\ previewRef' = windowsCreated + 1

\* No window was constructed
windowKept == UNCHANGED <<windowsCreated, liveWindows, previewRef>>

previewFrame ==
    UNCHANGED <<classDef, chatVars, initVars, raceVars, pageVars, mainVars, avatarVars,
                cascadeVars, autosaveVars, sessionRunning, internalRead>>

\* ipcMain.on('forward-to-preview'): createOk is whether the BrowserWindow
\* can be constructed, bufferOk whether Buffer.from accepts the payload
forward_to_preview(createOk, bufferOk) ==
    /\ Len(forwards) < MaxForwards
    /\ NoLiveWindow /\ createOk => windowsCreated < MaxWindows
    /\ LET w == IF NoLiveWindow
                THEN createPreviewWindow(previewWindow, createOk)
                ELSE previewWindow
           sent == w # "null" /\ bufferOk     \* else a TypeError, caught at the end
       IN
       /\ previewWindow' = w
       /\ forwards' = Append(forwards,
                             [returnValue |-> sent,
                              buffer |-> IF sent THEN "inFlight" ELSE "notSent"])
    /\ IF NoLiveWindow /\ createOk THEN windowCreated ELSE windowKept
    /\ previewFrame

\* Mutant: open-preview-window makes a window whether or not there is one
open_preview_window_alwaysCreates(createOk) ==
    /\ createOk => windowsCreated < MaxWindows
    /\ previewWindow' = createPreviewWindow(previewWindow, createOk)
    /\ IF createOk THEN windowCreated ELSE windowKept
    /\ UNCHANGED forwards
    /\ previewFrame

\* ipcMain.on('open-preview-window'): the window is made when there is no
\* live one, then shown and focused
open_preview_window(createOk) ==
    /\ NoLiveWindow /\ createOk => windowsCreated < MaxWindows
    /\ previewWindow' = IF NoLiveWindow
                        THEN createPreviewWindow(previewWindow, createOk)
                        ELSE previewWindow
    /\ IF NoLiveWindow /\ createOk THEN windowCreated ELSE windowKept
    /\ UNCHANGED forwards
    /\ previewFrame

\* preview.js has run in the window: ipc.on('preview-load-buffer', ...) is registered
previewLoaded ==
    /\ previewWindow = "loading"
    /\ previewWindow' = "ready"
    /\ UNCHANGED forwards
    /\ windowKept
    /\ previewFrame

\* The oldest message in flight
oldestInFlight ==
    CHOOSE i \in DOMAIN forwards :
        /\ forwards[i].buffer = "inFlight"
        /\ \A j \in 1..(i - 1) : forwards[j].buffer # "inFlight"

\* A 'preview-load-buffer' message reaches the window's page: the listener
\* receives it when it is registered, and nobody does otherwise
previewDeliver ==
    /\ \E i \in DOMAIN forwards : forwards[i].buffer = "inFlight"
    /\ forwards' = [forwards EXCEPT ![oldestInFlight].buffer =
                        IF previewWindow = "ready" THEN "received" ELSE "noListener"]
    /\ UNCHANGED previewWindow
    /\ windowKept
    /\ previewFrame

\* The user closes preview window w: the 'closed' listener that
\* createPreviewWindow put on it sets previewWindow to null
previewClosed(w) ==
    /\ w \in liveWindows
    /\ liveWindows' = liveWindows \ {w}
    /\ previewWindow' = "null"
    /\ previewRef' = 0
    /\ forwards' = [i \in DOMAIN forwards |->
                       IF forwards[i].buffer = "inFlight" /\ w = previewRef
                       THEN [forwards[i] EXCEPT !.buffer = "closed"]
                       ELSE forwards[i]]
    /\ UNCHANGED windowsCreated
    /\ previewFrame

\* No preview window has been opened
PreviewIdle ==
    /\ previewWindow = "null"
    /\ forwards = <<>>
    /\ windowsCreated = 0
    /\ liveWindows = {}
    /\ previewRef = 0

----------------------------------------------------------------------------
(* The autosave of the system prompt: openSettings fills the form and puts *)
(* a debounced saver on the template field's 'input' event                 *)

MaxOpens == 2
MaxInputs == 3
MaxTimeMs == 2000
StepMs == 200
DebounceMs == 600

\* The timers that are set, and whether one of them is due
PendingTimers == { i \in DOMAIN autosaveListeners : autosaveListeners[i] # 0 }
TimerDue == \E i \in PendingTimers : autosaveListeners[i] <= now

autosaveFrame ==
    UNCHANGED <<classDef, conversationHistory, isRecording, recognition, textInput,
                chatMessages, calls, turnOwner, lastRequest, loadPending, savePending, ops,
                initVars, promise, settled, listening, polling, timerOn, timeoutMs,
                resolveCalls, rejectCalls, pageVars, mainVars, avatarVars, cascadeVars,
                previewVars, sessionRunning, internalRead>>

\* Mutant: openSettings makes a new debounced saver each time it runs
openSettings_newDebounce ==
    /\ bindCount > 0
    /\ settingsOpens < MaxOpens
    /\ settingsOpens' = settingsOpens + 1
    /\ templateField' = settings.initialTemplate
    /\ autosaveListeners' = Append(autosaveListeners, 0)
    /\ UNCHANGED <<settings, now, inputEvents, autosaves>>
    /\ autosaveFrame

\* openSettings: the field takes the current setting; the debounced saver is
\* made once, and adding the same listener again changes nothing
openSettings ==
    /\ bindCount > 0
    /\ settingsOpens < MaxOpens
    /\ settingsOpens' = settingsOpens + 1
    /\ templateField' = settings.initialTemplate
    /\ autosaveListeners' = IF autosaveListeners = <<>> THEN <<0>> ELSE autosaveListeners
    /\ UNCHANGED <<settings, now, inputEvents, autosaves>>
    /\ autosaveFrame

\* The user changes the template field: every listener runs the function
\* debounce returned, clearTimeout(t) and t = setTimeout(..., wait)
templateInput(text) ==
    /\ settingsOpens > 0
    /\ ~TimerDue                         \* a due timer runs before a later event
    /\ Len(inputEvents) < MaxInputs
    /\ templateField' = text
    /\ inputEvents' = Append(inputEvents, now)
    /\ autosaveListeners' = [i \in DOMAIN autosaveListeners |-> now + DebounceMs]
    /\ UNCHANGED <<settings, now, autosaves, settingsOpens>>
    /\ autosaveFrame

\* The timer of listener i fires: saveFn up to its invoke of save-settings
autosaveFire(i) ==
    /\ i \in PendingTimers
    /\ autosaveListeners[i] <= now
    /\ autosaveListeners' = [autosaveListeners EXCEPT ![i] = 0]
    /\ settings' = [settings EXCEPT !.initialTemplate = templateField]
    /\ autosaves' = Append(autosaves, [at |-> now, template |-> settings'.initialTemplate,
                                       field |-> templateField])
    /\ UNCHANGED <<now, templateField, inputEvents, settingsOpens>>
    /\ autosaveFrame

\* Time passes, up to the next timer that is set
autosaveTick ==
    /\ ~TimerDue
    /\ now < MaxTimeMs
    /\ LET reach == now + StepMs
           before == { autosaveListeners[i] : i \in PendingTimers } \cap (now..reach)
       IN now' = IF before = {} THEN reach
                 ELSE CHOOSE d \in before : \A e \in before : d <= e
    /\ UNCHANGED <<settings, autosaveVars>>
    /\ autosaveFrame

\* The settings dialog has not been opened
AutosaveIdle ==
    /\ templateField = <<>>
    /\ autosaveListeners = <<>>
    /\ inputEvents = <<>>
    /\ autosaves = <<>>
    /\ settingsOpens = 0

----------------------------------------------------------------------------
(* The bundled avatars: read-internal-avatar of the main process.  A path  *)
(* is the sequence of its segments.                                        *)

MaxSegments == 3

\* __dirname of main.js, and the files of the installation
Dirname == <<"app", "src">>
AvatarsDir == <<"app", "assets", "avatars">>
ExistingFiles ==
    { <<"app", "assets", "avatars", "a.vrm">>,
      <<"app", "assets", "avatars", "src">>,
      <<"app", "settings.json">>,
      <<"app", "src", "main.js">> }

\* The names a renderer can send: up to MaxSegments segments
Segments == {"..", "a.vrm", "settings.json", "src"}
FileNames == UNION { [1..n -> Segments] : n \in 1..MaxSegments }

\* path.join: the segments in a row, where '..' takes the last one away
RECURSIVE normalize(_, _)
normalize(segs, acc) ==
    IF segs = <<>> THEN acc
    ELSE IF Head(segs) = ".."
         THEN normalize(Tail(segs), IF acc = <<>> THEN acc ELSE SubSeq(acc, 1, Len(acc) - 1))
         ELSE normalize(Tail(segs), Append(acc, Head(segs)))

pathJoin(first, second, third) == normalize(first \o second \o third, <<>>)

\* The path p lies inside the directory dir
Inside(p, dir) == Len(p) > Len(dir) /\ SubSeq(p, 1, Len(dir)) = dir

NoRead == [fileName |-> <<>>, fullPath |-> <<>>, returned |-> FALSE]

\* ipcMain.handle('read-internal-avatar'): the buffer of the file when it
\* exists, a thrown error otherwise
read_internal_avatar(fileName) ==
    /\ LET fullPath == pathJoin(Dirname, <<"..", "assets", "avatars">>, fileName) IN
       internalRead' = [fileName |-> fileName, fullPath |-> fullPath,
                        returned |-> fullPath \in ExistingFiles]
    /\ UNCHANGED <<classDef, chatVars, initVars, raceVars, pageVars, mainVars, avatarVars,
                   cascadeVars, previewVars, autosaveVars, sessionRunning>>

\* Nothing outside the chat, the start-up and the settings has happened
ExtraIdle ==
    /\ AvatarIdle /\ CascadeIdle /\ PreviewIdle /\ AutosaveIdle
    /\ sessionRunning = FALSE
    /\ internalRead = NoRead

----------------------------------------------------------------------------
(* The main process: the save-settings and load-settings handlers and the  *)
(* two settings files.  A file is [exists, text]; the text of a JSON       *)
(* object is a sequence of tokens <<name, value>> between an opening and a *)
(* closing brace.                                                          *)

\* The order in which JSON.stringify writes the members
FieldOrder == <<"openrouterApiKey", "initialTemplate", "rendererEngine", "previousRenderer">>

\* The records the renderer sends to save-settings; the last is what the
\* settings are after the timeout fallback recorded previousRenderer
SettingsRecords ==
    SavedSettings \cup
    { [openrouterApiKey |-> <<"k">>, initialTemplate |-> <<"T", "1">>,
       rendererEngine |-> "2d", previousRenderer |-> "three"] }

OpenBrace == <<"{", <<>>>>
CloseBrace == <<"}", <<>>>>

RECURSIVE Members(_, _)
Members(S, i) ==
    IF i > Len(FieldOrder) THEN <<>>
    ELSE IF FieldOrder[i] \in DOMAIN S
         THEN <<<<FieldOrder[i], S[FieldOrder[i]]>>>> \o Members(S, i + 1)
         ELSE Members(S, i + 1)

\* JSON.stringify(settings, null, 2)
JSONstringify(S) == <<OpenBrace>> \o Members(S, 1) \o <<CloseBrace>>

\* JSON.parse throws on a text that is no complete object
JSONparseThrows(text) ==
    \/ Len(text) < 2
    \/ text[1][1] # "{"
    \/ text[Len(text)][1] # "}"

\* JSON.parse(text) of a complete object
JSONparse(text) ==
    LET names == { text[i][1] : i \in 2..(Len(text) - 1) }
    IN  [ n \in names |-> text[CHOOSE i \in 2..(Len(text) - 1) : text[i][1] = n][2] ]

NoFile == [exists |-> FALSE, text |-> <<>>]

\* A file whose write was cut short
TruncatedFile == [exists |-> TRUE, text |-> <<OpenBrace>>]

\* fs.writeFileSync(path, text): it succeeds, or it throws and leaves the
\* file as it was or cut short
writeFileSync(file, text, ok) ==
    IF ok THEN { [exists |-> TRUE, text |-> text] } ELSE { file, TruncatedFile }

Null == [isNull |-> TRUE]
Value(S) == [isNull |-> FALSE, value |-> S]

\* fs.existsSync(path) and JSON.parse(fs.readFileSync(path)) does not throw
Readable(file) == file.exists /\ ~JSONparseThrows(file.text)

\* The renderer and the page, which take no part in the handlers' steps
rendererUnchanged ==
    UNCHANGED <<classDef, chatVars, initVars, raceVars, pageVars, extraVars>>

\* ipcMain.handle('save-settings'): userOk and repoOk say whether the write
\* to the userData path and the write to the fallback path succeed
save_settings(S, userOk, repoOk) ==
    /\ lastSaved' = Value(S)
    /\ loadedSince' = FALSE
    /\ userFile' \in writeFileSync(userFile, JSONstringify(S), userOk)
    /\ IF userOk
       THEN /\ saveReturned' = "true"
            /\ UNCHANGED repoFile
       ELSE /\ repoFile' \in writeFileSync(repoFile, JSONstringify(S), repoOk)
            /\ saveReturned' = IF repoOk THEN "true" ELSE "false"
    /\ UNCHANGED lastLoaded
    /\ rendererUnchanged

\* load-settings reading the file next to the application first
load_settings_repoFirst(migrateOk) ==
    /\ loadedSince' = TRUE
    /\ IF Readable(repoFile)
       THEN /\ lastLoaded' = Value(JSONparse(repoFile.text))
            /\ userFile' \in writeFileSync(userFile, JSONstringify(JSONparse(repoFile.text)),
                                           migrateOk)
       ELSE IF Readable(userFile)
       THEN /\ lastLoaded' = Value(JSONparse(userFile.text))
            /\ UNCHANGED userFile
       ELSE /\ lastLoaded' = Null
            /\ UNCHANGED userFile
    /\ UNCHANGED <<repoFile, lastSaved, saveReturned>>
    /\ rendererUnchanged

\* ipcMain.handle('load-settings'): migrateOk says whether the write that
\* copies the fallback file to the userData path succeeds
load_settings(migrateOk) ==
    /\ loadedSince' = TRUE
    /\ IF Readable(userFile)
       THEN /\ lastLoaded' = Value(JSONparse(userFile.text))
            /\ UNCHANGED userFile
       ELSE IF Readable(repoFile)
       THEN /\ lastLoaded' = Value(JSONparse(repoFile.text))
            /\ userFile' \in writeFileSync(userFile, JSONstringify(JSONparse(repoFile.text)),
                                           migrateOk)
       ELSE /\ lastLoaded' = Null
            /\ UNCHANGED userFile
    /\ UNCHANGED <<repoFile, lastSaved, saveReturned>>
    /\ rendererUnchanged

\* The main process before any handler has run
MainIdle ==
    /\ lastSaved = Null
    /\ saveReturned = "none"
    /\ lastLoaded = Null
    /\ loadedSince = FALSE

\* The renderer as its constructor leaves it, before initWithDelay has run
Constructed ==
    /\ classDef \in {1, 2}
    /\ settings = ConstructorSettings(classDef)
    /\ conversationHistory = <<>>
    /\ isRecording = FALSE
    /\ recognition = "null"
    /\ textInput = <<>>
    /\ chatMessages = <<>>
    /\ calls = <<>>
    /\ turnOwner = <<>>
    /\ lastRequest = NoRequest
    /\ loadPending = 0
    /\ savePending = 0
    /\ ops = 0
    /\ pc = "new"
    /\ bindCount = 0
    /\ engine = "none"
    /\ initFallbackCalls = 0
    /\ threeModulesPartial = FALSE
    /\ promise = "none"
    /\ settled = FALSE
    /\ listening = FALSE
    /\ polling = FALSE
    /\ timerOn = FALSE
    /\ timeoutMs = 0
    /\ now = 0
    /\ resolveCalls = 0
    /\ rejectCalls = 0

\* The files a start of the application can find: none, one cut short, or
\* one an earlier run has written
SettingsFiles ==
    { NoFile, TruncatedFile } \cup
    { [exists |-> TRUE, text |-> JSONstringify(S)] : S \in SettingsRecords }

InitSettings ==
    /\ Constructed
    /\ threeModulesLoaded = FALSE
    /\ hasTHREE = FALSE
    /\ canvas2dOk = TRUE
    /\ MainIdle
    /\ ExtraIdle
    /\ userFile \in SettingsFiles
    /\ repoFile \in SettingsFiles

NextSettings ==
    \/ \E S \in SettingsRecords, userOk \in BOOLEAN, repoOk \in BOOLEAN :
           save_settings(S, userOk, repoOk)
    \/ \E migrateOk \in BOOLEAN : load_settings(migrateOk)

SpecSettings == InitSettings /\ [][NextSettings]_vars

----------------------------------------------------------------------------
(* Start-up: the constructor calls initWithDelay, which awaits             *)
(* waitForThreeAndLoaders and then init.  A continuation of an await is a  *)
(* microtask: it runs before any timer, event or IPC answer, so every      *)
(* other action waits while one is due.                                    *)

\* A continuation of initWithDelay is due
MicrotaskDue ==
    \/ pc = "wait" /\ promise \in {"resolved", "rejected"}
    \/ pc \in {"after2D", "threw_try", "threw_timeout", "threw_partial"}

\* The next tick of the poll interval, in ms since the timers were started
NextPoll == (now \div PollMs + 1) * PollMs

\* waitForThreeAndLoaders: cleanup(), on the registrations <<listener, interval, timer>>
cleanup_keepsInterval(l, p, t) == [listening |-> FALSE, polling |-> p, timerOn |-> FALSE]

cleanup(l, p, t) == [listening |-> FALSE, polling |-> FALSE, timerOn |-> FALSE]

\* resolve() or reject() of the promise: only the first call settles it
settle(p, outcome) == IF p = "pending" THEN outcome ELSE p

\* waitForThreeAndLoaders: onReady()
onReady ==
    IF settled
    THEN UNCHANGED <<settled, listening, polling, timerOn, promise, resolveCalls>>
    ELSE /\ settled' = TRUE
         /\ listening' = cleanup(listening, polling, timerOn).listening
         /\ polling' = cleanup(listening, polling, timerOn).polling
         /\ timerOn' = cleanup(listening, polling, timerOn).timerOn
         /\ promise' = settle(promise, "resolved")
         /\ resolveCalls' = resolveCalls + 1

\* new CelestisAI(): initWithDelay runs up to its first await, that is, the
\* executor of waitForThreeAndLoaders.  Only the first class definition
\* starts the timeout timer.
waitForThreeAndLoaders ==
    /\ pc = "new"
    /\ pc' = "wait"
    /\ timeoutMs' = TimeoutMs(settings)
    /\ now' = 0
    /\ IF moduleReady(threeModulesLoaded, hasTHREE)
       THEN /\ promise' = "resolved"
            /\ resolveCalls' = resolveCalls + 1
            /\ UNCHANGED <<settled, listening, polling, timerOn>>
       ELSE /\ promise' = "pending"
            /\ settled' = FALSE
            /\ listening' = TRUE
            /\ polling' = TRUE
            /\ timerOn' = (classDef = 1)
            /\ UNCHANGED resolveCalls
    /\ UNCHANGED <<classDef, chatVars, bindCount, engine, initFallbackCalls,
                   threeModulesPartial, rejectCalls, pageVars, mainVars, extraVars>>

\* The callback of setInterval(..., 150)
pollTick ==
    /\ polling
    /\ ~MicrotaskDue
    /\ timerOn => NextPoll <= timeoutMs
    /\ now' = IF timerOn THEN NextPoll ELSE now
    /\ IF moduleReady(threeModulesLoaded, hasTHREE)
       THEN onReady
       ELSE UNCHANGED <<settled, listening, polling, timerOn, promise, resolveCalls>>
    /\ UNCHANGED <<classDef, chatVars, initVars, timeoutMs, rejectCalls, pageVars, mainVars, extraVars>>

\* The callback of setTimeout(..., timeoutMs); a timer fires once
timeoutFire ==
    /\ timerOn
    /\ ~MicrotaskDue
    /\ polling => timeoutMs <= NextPoll
    /\ now' = timeoutMs
    /\ IF settled
       THEN /\ timerOn' = FALSE
            /\ UNCHANGED <<settled, listening, polling, promise, rejectCalls>>
       ELSE /\ settled' = TRUE
            /\ listening' = cleanup(listening, polling, FALSE).listening
            /\ polling' = cleanup(listening, polling, FALSE).polling
            /\ timerOn' = cleanup(listening, polling, FALSE).timerOn
            /\ promise' = settle(promise, "rejected")
            /\ rejectCalls' = rejectCalls + 1
    /\ UNCHANGED <<classDef, chatVars, initVars, timeoutMs, resolveCalls, pageVars, mainVars, extraVars>>

\* three-modules.js or the preload script has loaded three.js: it sets
\* window.THREE and window.__threeModulesLoaded and dispatches 'threejs-ready',
\* which runs onReady when it is registered
threejsReady ==
    /\ ~MicrotaskDue
    /\ threeModulesLoaded' = TRUE
    /\ hasTHREE' = TRUE
    /\ IF listening
       THEN onReady
       ELSE UNCHANGED <<settled, listening, polling, timerOn, promise, resolveCalls>>
    /\ UNCHANGED <<classDef, chatVars, initVars, timeoutMs, now, rejectCalls, canvas2dOk,
                   mainVars, extraVars>>

\* A UMD build of three.js has attached the global THREE; no event is dispatched
threeUmdAttached ==
    /\ ~MicrotaskDue
    /\ ~hasTHREE
    /\ hasTHREE' = TRUE
    /\ UNCHANGED <<classDef, chatVars, initVars, raceVars, threeModulesLoaded,
                   canvas2dOk, mainVars, extraVars>>

\* What can throw in the synchronous part of init
InitThrows == {"no", "setupEventListeners", "setupSpeechRecognition"}

\* Where initWithDelay stands after init threw, by the place that called init
threwPc(path) ==
    CASE path = "try" -> "threw_try"
      [] path = "timeout" -> "threw_timeout"
      [] path = "partial" -> "threw_partial"

\* Where initWithDelay stands while init awaits loadSettings
initPc(path) ==
    CASE path = "try" -> "init_try"
      [] path = "timeout" -> "init_timeout"
      [] path = "partial" -> "init_partial"

\* init() up to its await of loadSettings, called from path; threw says
\* which of its calls throws, if any
init(path, threw) ==
    /\ bindCount' = bindCount + 1
    /\ IF threw = "setupEventListeners"
       THEN UNCHANGED engine
       ELSE engine' = initEngine(classDef, settings, hasTHREE, canvas2dOk)
    /\ IF threw = "no"
       THEN /\ recognition' = "object"
            /\ loadPending' = loadPending + 1
            /\ pc' = initPc(path)
       ELSE /\ UNCHANGED <<recognition, loadPending>>
            /\ pc' = threwPc(path)
    /\ UNCHANGED initFallbackCalls

\* initFallback(): synchronous, loadSettings is called but not awaited
initFallback ==
    /\ bindCount' = bindCount + 1
    /\ initFallbackCalls' = initFallbackCalls + 1
    /\ recognition' = "object"
    /\ loadPending' = loadPending + 1
    /\ engine' = "fallbackDisplay"
    /\ pc' = "done"

\* The frame of a continuation of initWithDelay, settings and
\* _threeModulesPartial apart
initWithDelayFrame ==
    UNCHANGED <<classDef, conversationHistory, isRecording, textInput, chatMessages,
                calls, turnOwner, lastRequest, savePending, ops, raceVars, pageVars, mainVars, extraVars>>

\* initWithDelay's catch without the timeout case: partial init with THREE,
\* initFallback without
initWithDelayCatchOther ==
    IF hasTHREE
    THEN /\ threeModulesPartial' = TRUE
         /\ \E threw \in InitThrows : init("partial", threw)
    ELSE /\ initFallback
         /\ UNCHANGED threeModulesPartial

\* initWithDelay's catch of the timeout error, up to await setup2DEngine()
initWithDelayCatchTimeout_keepsEngine ==
    /\ settings' = settings
    /\ IF canvas2dOk
       THEN /\ pc' = "after2D"
            /\ engine' = "2d"
            /\ UNCHANGED <<bindCount, initFallbackCalls, recognition, loadPending>>
       ELSE initFallback

initWithDelayCatchTimeout ==
    /\ settings' = [ settings EXCEPT !.previousRenderer = settings.rendererEngine,
                                     !.rendererEngine = "2d" ]
    /\ IF canvas2dOk
       THEN /\ pc' = "after2D"
            /\ engine' = "2d"
            /\ UNCHANGED <<bindCount, initFallbackCalls, recognition, loadPending>>
       ELSE initFallback

\* initWithDelay after await waitForThreeAndLoaders()
initWithDelayAfterWait ==
    /\ pc = "wait"
    /\ \/ /\ promise = "resolved"
          /\ \E threw \in InitThrows : init("try", threw)
          /\ UNCHANGED <<settings, threeModulesPartial>>
       \/ /\ promise = "rejected"
          /\ initWithDelayCatchTimeout
          /\ UNCHANGED threeModulesPartial
    /\ initWithDelayFrame

\* initWithDelay after await setup2DEngine() in the timeout case
initWithDelayAfter2D ==
    /\ pc = "after2D"
    /\ \E threw \in InitThrows : init("timeout", threw)
    /\ UNCHANGED <<settings, threeModulesPartial>>
    /\ initWithDelayFrame

\* initWithDelay's catch clauses after init threw
initWithDelayAfterThrow ==
    /\ \/ /\ pc = "threw_try"
          /\ initWithDelayCatchOther
       \/ /\ pc \in {"threw_timeout", "threw_partial"}
          /\ initFallback
          /\ UNCHANGED threeModulesPartial
    /\ UNCHANGED settings
    /\ initWithDelayFrame

\* The application from the construction of CelestisAI, on a page where
\* three.js may or may not be loaded yet
InitStartup ==
    /\ Constructed
    /\ threeModulesLoaded \in BOOLEAN
    /\ hasTHREE \in {threeModulesLoaded, TRUE}
    /\ canvas2dOk \in BOOLEAN
    /\ MainIdle
    /\ ExtraIdle
    /\ userFile = NoFile
    /\ repoFile = NoFile

\* The steps of the program itself, the page's loading of three.js apart
StartupProgram ==
    \/ waitForThreeAndLoaders
    \/ pollTick
    \/ timeoutFire
    \/ initWithDelayAfterWait
    \/ initWithDelayAfter2D
    \/ initWithDelayAfterThrow
    \/ loadSettingsNull
    \/ \E saved \in SavedSettings : loadSettingsResume(saved)

NextStartup ==
    \/ StartupProgram
    \/ threejsReady
    \/ threeUmdAttached

SpecStartup == InitStartup /\ [][NextStartup]_vars

\* Timers fire, continuations run and the main process answers; nothing
\* obliges the page to ever load three.js
FairStartup == SpecStartup /\ WF_vars(StartupProgram)

----------------------------------------------------------------------------
(* A restart of the application over the settings files an earlier run     *)
(* left: the start-up above, with the answer to the renderer's             *)
(* invoke('load-settings') computed by the main process's handler.  Every  *)
(* start-up path calls loadSettings once.                                  *)

\* The main process handles the invoke of loadSettings
handleLoadSettings ==
    /\ loadPending > 0
    /\ ~loadedSince
    /\ ~MicrotaskDue
    /\ \E migrateOk \in BOOLEAN : load_settings(migrateOk)

\* The handler's answer reaches the renderer: loadSettings resumes
loadSettingsAnswered ==
    /\ loadedSince
    /\ ~MicrotaskDue
    /\ IF lastLoaded.isNull
       THEN loadSettingsNull
       ELSE loadSettingsResume(lastLoaded.value)

InitReload ==
    /\ Constructed
    /\ threeModulesLoaded \in BOOLEAN
    /\ hasTHREE \in {threeModulesLoaded, TRUE}
    /\ canvas2dOk \in BOOLEAN
    /\ MainIdle
    /\ ExtraIdle
    /\ userFile \in SettingsFiles
    /\ repoFile \in SettingsFiles

NextReload ==
    \/ waitForThreeAndLoaders
    \/ pollTick
    \/ timeoutFire
    \/ initWithDelayAfterWait
    \/ initWithDelayAfter2D
    \/ initWithDelayAfterThrow
    \/ threejsReady
    \/ threeUmdAttached
    \/ handleLoadSettings
    \/ loadSettingsAnswered

SpecReload == InitReload /\ [][NextReload]_vars

----------------------------------------------------------------------------
(* The chat specification: the application from the moment init() has run  *)
(* its synchronous part after three.js was found ready at construction     *)
(* (the handlers are bound, the recogniser is set up, loadSettings is      *)
(* awaiting its answer)                                                    *)

\* The renderer once init has run its synchronous part after three.js was
\* found ready at construction, settings and history apart
StartedRenderer ==
    /\ classDef \in {1, 2}
    /\ isRecording = FALSE
    /\ textInput = <<>>
    /\ chatMessages = <<>>
    /\ calls = <<>>
    /\ turnOwner = <<>>
    /\ lastRequest = NoRequest
    /\ savePending = 0
    /\ ops = 0
    /\ pc = "init_try"
    /\ bindCount = 1
    /\ threeModulesLoaded = TRUE
    /\ hasTHREE = TRUE
    /\ canvas2dOk = TRUE
    /\ engine = initEngine(classDef, ConstructorSettings(classDef), hasTHREE, canvas2dOk)
    /\ initFallbackCalls = 0
    /\ threeModulesPartial = FALSE
    /\ promise = "resolved"
    /\ settled = FALSE
    /\ listening = FALSE
    /\ polling = FALSE
    /\ timerOn = FALSE
    /\ timeoutMs = TimeoutMs(ConstructorSettings(classDef))
    /\ now = 0
    /\ resolveCalls = 1
    /\ rejectCalls = 0
    /\ MainIdle
    /\ userFile = NoFile
    /\ repoFile = NoFile

\* ... on a platform that has speech recognition
Started == StartedRenderer /\ recognition = "object"

Init ==
    /\ Started
    /\ settings = ConstructorSettings(classDef)
    /\ conversationHistory = <<>>
    /\ loadPending = 1
    /\ ExtraIdle

Next ==
    \/ sendMessage
    \/ \E c \in DOMAIN calls, r \in Responses : sendMessageResume(c, r)
    \/ clearConversation
    \/ \E t \in InputTexts : typeText(t)
    \/ \E form \in FormValues : saveSettings(form)
    \/ \E resolved \in BOOLEAN : saveSettingsResume(resolved)
    \/ loadSettingsNull
    \/ \E saved \in SavedSettings : loadSettingsResume(saved)
    \/ toggleVoiceRecording
    \/ \E t \in InputTexts : recognition_onresult(t)
    \/ recognition_onend

Spec == Init /\ [][Next]_vars

----------------------------------------------------------------------------
(* The saving specification: the renderer's saveSettings invokes the       *)
(* save-settings handler of the main process and resumes on its answer     *)

\* The main process handles the invoke of a suspended saveSettings
handleSaveSettings ==
    /\ savePending > 0
    /\ saveReturned = "none"
    /\ \E userOk \in BOOLEAN, repoOk \in BOOLEAN : save_settings(settings, userOk, repoOk)

\* The handler's answer reaches the renderer: the handler catches every
\* exception and returns true or false, so the invoke always resolves
saveSettingsAnswered ==
    /\ saveReturned # "none"
    /\ saveSettingsAfterInvoke(TRUE)
    /\ saveReturned' = "none"
    /\ UNCHANGED <<userFile, repoFile, lastSaved, lastLoaded, loadedSince>>
    /\ UNCHANGED <<initVars, raceVars, pageVars, extraVars>>

InitSave ==
    /\ Started
    /\ settings = ConstructorSettings(classDef)
    /\ conversationHistory = <<>>
    /\ loadPending = 0
    /\ ExtraIdle

NextSave ==
    \/ \E form \in FormValues : saveSettings(form)
    \/ handleSaveSettings
    \/ saveSettingsAnswered

SpecSave == InitSave /\ [][NextSave]_vars

----------------------------------------------------------------------------
(* The avatar import specification: the started application, with the      *)
(* settings as the constructor or a loaded record left them and a chat     *)
(* that may have begun.  this.scene is set when init set up the 3D engine. *)

InitAvatar ==
    /\ Started
    /\ \E e \in Engines : settings = [ConstructorSettings(classDef) EXCEPT !.rendererEngine = e]
    /\ conversationHistory \in { <<>>, <<[role |-> "user", content |-> <<"a">>]>> }
    /\ loadPending = 0
    /\ avatarStatus = ""
    /\ scene = (engine = "three")
    /\ vrm = "null"
    /\ vrmShown = FALSE
    /\ mixer = FALSE
    /\ urlsCreated = 0
    /\ liveURLs = {}
    /\ currentOverlayURL = 0
    /\ overlayPresent \in BOOLEAN
    /\ loaders \in [module : BOOLEAN, THREE_VRM : BOOLEAN, VRMLoader : BOOLEAN,
                    GLTFLoader : BOOLEAN]
    /\ vrmLoads = <<>>
    /\ forwarded = 0
    /\ CascadeIdle
    /\ PreviewIdle
    /\ AutosaveIdle
    /\ sessionRunning = FALSE
    /\ internalRead = NoRead

NextAvatar ==
    \/ loadVRM
    \/ \E c \in DOMAIN vrmLoads : readRejected(c)
    \/ \E c \in DOMAIN vrmLoads, len \in BufferLengths : readResolved(c, len)
    \/ \E c \in DOMAIN vrmLoads : imageLoaded(c)
    \/ \E c \in DOMAIN vrmLoads : imageError(c)
    \/ \E c \in DOMAIN vrmLoads, result \in LoaderResults : loaderCallback(c, result)
    \/ \E c \in DOMAIN vrmLoads : parseTimeout(c)

SpecAvatar == InitAvatar /\ [][NextAvatar]_vars

----------------------------------------------------------------------------
(* The loader cascade specification: the page's module script calls        *)
(* ensureGLTFLoader once three.js is attached, over any sources            *)

InitCascade ==
    /\ Started
    /\ settings = ConstructorSettings(classDef)
    /\ conversationHistory = <<>>
    /\ loadPending = 1
    /\ AvatarIdle
    /\ gltfLoader \in BOOLEAN
    /\ loaderSources \in { f \in [1..NumStrategies -> SourceKinds] : f[1] # "umd" }
    /\ strategy = 0
    /\ attempts = <<>>
    /\ escaped = FALSE
    /\ PreviewIdle
    /\ AutosaveIdle
    /\ sessionRunning = FALSE
    /\ internalRead = NoRead

NextCascade ==
    \/ ensureGLTFLoader
    \/ \E k \in 1..NumStrategies, outcome \in {"skipped", "attached", "noAttach", "throws"} :
           tryStrategy(k, outcome)

SpecCascade == InitCascade /\ [][NextCascade]_vars

----------------------------------------------------------------------------
(* The preview specification: the renderer forwards avatars to the preview *)
(* window while the user opens, loads and closes it                        *)

InitPreview ==
    /\ Init
    /\ previewWindow = "null"

NextPreview ==
    \/ \E createOk \in BOOLEAN, bufferOk \in BOOLEAN : forward_to_preview(createOk, bufferOk)
    \/ previewLoaded
    \/ previewDeliver
    \/ \E w \in liveWindows : previewClosed(w)
    \/ \E createOk \in BOOLEAN : open_preview_window(createOk)

SpecPreview == InitPreview /\ [][NextPreview]_vars

----------------------------------------------------------------------------
(* The autosave specification: the user opens the settings dialog and      *)
(* types into the template field while time passes                         *)

InitAutosave ==
    /\ Init
    /\ settingsOpens = 0

NextAutosave ==
    \/ openSettings
    \/ \E text \in Templates : templateInput(text)
    \/ \E i \in DOMAIN autosaveListeners : autosaveFire(i)
    \/ autosaveTick

SpecAutosave == InitAutosave /\ [][NextAutosave]_vars

----------------------------------------------------------------------------
(* The voice specification: the microphone button and the recogniser's     *)
(* events, on platforms with and without speech recognition                *)

InitVoice ==
    /\ StartedRenderer
    /\ recognition \in {"null", "object"}
    /\ settings = ConstructorSettings(classDef)
    /\ conversationHistory = <<>>
    /\ loadPending = 1
    /\ ExtraIdle

NextVoice ==
    \/ toggleVoiceRecording
    \/ \E t \in InputTexts : recognition_onresult(t)
    \/ recognition_onend
    \/ \E t \in InputTexts : typeText(t)
    \/ \E form \in FormValues : saveSettings(form)
    \/ sendMessage

SpecVoice == InitVoice /\ [][NextVoice]_vars

----------------------------------------------------------------------------
(* The bundled-avatar specification: renderers ask for files by name       *)

InitInternal ==
    /\ Init
    /\ internalRead = NoRead

NextInternal == \E fileName \in FileNames : read_internal_avatar(fileName)

SpecInternal == InitInternal /\ [][NextInternal]_vars

----------------------------------------------------------------------------
(* Claims about the chat                                                   *)

\* A step is a sendMessage invocation exactly when it adds a call
IsSendMessageStep == Len(calls') = Len(calls) + 1

\* The call passes both guards: the trimmed text and the API key are non-empty
PassesGuards == trim(textInput) # <<>> /\ Truthy(settings.openrouterApiKey)

\* C1: every step leaves conversationHistory alone, or appends one turn of role
\* 'user' or 'assistant' at its end, or is a clearConversation step; so no entry is
\* ever reordered, edited or removed, and only clearConversation shortens the history.
C1_HistoryAppendOnly ==
    [][ \/ conversationHistory' = conversationHistory
        \/ /\ Len(conversationHistory') = Len(conversationHistory) + 1
           /\ SubSeq(conversationHistory', 1, Len(conversationHistory)) = conversationHistory
           /\ conversationHistory'[Len(conversationHistory')].role \in {"user", "assistant"}
        \/ clearConversation ]_vars

\* C1 witness: settings were saved and loaded and a request failed, and the history
\* still holds a user turn followed by later turns
C1_Witness ==
    /\ Len(conversationHistory) >= 3
    /\ \E c \in DOMAIN calls : calls[c].state = "failed"
    /\ loadPending = 0
    /\ \E i \in DOMAIN chatMessages : chatMessages[i].content = SavedText

\* C2: whenever the history holds an assistant turn, the entry right before it is
\* the user turn of the same sendMessage call (no handler got in between).
C2_AssistantFollowsOwnUserTurn ==
    \A i \in DOMAIN conversationHistory :
        conversationHistory[i].role = "assistant" =>
            /\ i > 1
            /\ conversationHistory[i - 1].role = "user"
            /\ turnOwner[i - 1] = turnOwner[i]

\* C3: the request a sendMessage call issues carries the system message with
\* settings.initialTemplate, then the whole history in order; its last element is
\* the user turn of that call; the history never holds a system message.
C3_RequestContext ==
    [][ /\ (IsSendMessageStep /\ calls'[Len(calls')].state = "pending") =>
            /\ lastRequest'.call = Len(calls')
            /\ lastRequest'.messages =
                   <<[role |-> "system", content |-> settings.initialTemplate]>>
                       \o conversationHistory'
            /\ lastRequest'.messages[Len(lastRequest'.messages)] =
                   [role |-> "user", content |-> trim(textInput)]
            /\ turnOwner'[Len(turnOwner')] = Len(calls')
        /\ \A i \in DOMAIN conversationHistory' : conversationHistory'[i].role # "system"
      ]_vars

\* C3 witness: a request went out with a saved template and earlier turns before
\* the call's own user turn
C3_Witness ==
    /\ Len(lastRequest.messages) >= 4
    /\ lastRequest.messages[1].content # DefaultTemplate
    /\ lastRequest.messages[Len(lastRequest.messages)].role = "user"

\* C4: a sendMessage call changes the history or issues a request only if the
\* trimmed text and the API key are both non-empty; with text but no key it shows
\* the one 'Please set your OpenRouter API key' message and changes nothing else.
C4_Guards ==
    [][ IsSendMessageStep =>
          /\ (conversationHistory' # conversationHistory \/ lastRequest' # lastRequest)
                 => PassesGuards
          /\ (trim(textInput) # <<>> /\ ~Truthy(settings.openrouterApiKey)) =>
                 /\ chatMessages' = Append(chatMessages,
                                           [type |-> "system", content |-> NeedKeyText])
                 /\ lastRequest' = lastRequest
                 /\ calls'[Len(calls')].fetches = 0
                 /\ conversationHistory' = conversationHistory
                 /\ textInput' = textInput
      ]_vars

\* C4 witness: a call was rejected for the missing key while text was in the field
C4_Witness ==
    /\ \E c \in DOMAIN calls : calls[c].state = "noKey"
    /\ trim(textInput) # <<>>
    /\ chatMessages # <<>>
    /\ chatMessages[Len(chatMessages)].content = NeedKeyText

\* The responses the claim counts as failures: fetch rejects, the status is not OK,
\* or the body has no choices[0].message.content
FailedResponses ==
    { r \in Responses :
        ~r.fetched \/ ~r.ok \/ ~r.json \/ ~r.choices \/ ~r.message \/ r.content = Undefined }

\* C5: when the request of a call fails, sendMessage adds exactly one system error
\* message, appends no assistant turn and keeps the user turn.
C5_FailureShowsErrorOnly ==
    [][ \A c \in DOMAIN calls : \A r \in FailedResponses :
          sendMessageResume(c, r) =>
              /\ chatMessages' = Append(chatMessages,
                                        [type |-> "system", content |-> AiErrorText])
              /\ conversationHistory' = conversationHistory
      ]_vars

\* C6: a sendMessage call that passes the guards calls fetch exactly once, one that
\* is rejected never; no later step issues a request for an earlier call.
C6_OneRequestPerCall ==
    [][ /\ IsSendMessageStep =>
              calls'[Len(calls')].fetches = IF PassesGuards THEN 1 ELSE 0
        /\ \A c \in DOMAIN calls : calls'[c].fetches = calls[c].fetches
        /\ lastRequest' # lastRequest => (IsSendMessageStep /\ PassesGuards)
      ]_vars

\* C6 witness: one call was rejected, one failed and one was answered
C6_Witness ==
    /\ \E c \in DOMAIN calls : calls[c].state \in {"empty", "noKey"} /\ calls[c].fetches = 0
    /\ \E c \in DOMAIN calls : calls[c].state = "failed" /\ calls[c].fetches = 1
    /\ \E c \in DOMAIN calls : calls[c].state = "answered" /\ calls[c].fetches = 1

----------------------------------------------------------------------------
(* Claims about the start-up                                               *)

\* C7: on every execution of initWithDelay, whether or not three.js ever
\* becomes ready, setupEventListeners is eventually called (through init or
\* initFallback), so that the chat handlers are bound.
C7_UiBecomesUsable == <>(bindCount > 0)

\* The step is initWithDelay's continuation after the wait was rejected
IsTimeoutCatchStep == pc = "wait" /\ promise = "rejected"

\* initFallback is entered in the step
IsInitFallbackStep == initFallbackCalls' = initFallbackCalls + 1

\* What C8 says of one step of the first class definition
TimeoutPathStep ==
    /\ (promise = "pending" /\ promise' = "rejected") =>
           /\ now' = RendererTimeoutMs1
           /\ ~settled /\ resolveCalls = 0
    /\ IsTimeoutCatchStep =>
           /\ settings'.previousRenderer = settings.rendererEngine
           /\ settings'.rendererEngine = "2d"
           /\ canvas2dOk => pc' = "after2D" /\ engine' = "2d" /\ ~IsInitFallbackStep
           /\ ~canvas2dOk => IsInitFallbackStep
    /\ pc = "after2D" =>
           /\ bindCount' = bindCount + 1
           /\ pc' \in {"init_timeout", "threw_timeout"}
           /\ ~IsInitFallbackStep
    /\ (rejectCalls > 0 /\ IsInitFallbackStep) =>
           \/ IsTimeoutCatchStep /\ ~canvas2dOk
           \/ pc = "threw_timeout"

RaceOutcome ==
    /\ resolveCalls + rejectCalls <= 1
    /\ promise = "resolved" <=> resolveCalls = 1
    /\ promise = "rejected" <=> rejectCalls = 1
    /\ promise \in {"resolved", "rejected"} => ~listening /\ ~polling /\ ~timerOn

\* A settled race stays as it is
RaceStaysSettled ==
    promise \in {"resolved", "rejected"} =>
        /\ promise' = promise
        /\ resolveCalls' = resolveCalls
        /\ rejectCalls' = rejectCalls

----------------------------------------------------------------------------
(* Claims about the settings files                                         *)

\* C10: whenever save-settings returned true for a record S, a
\* load-settings call after it, with no save in between, returns a record
\* equal to S, whichever of the writes failed.
C10_SaveLoadRoundTrip ==
    (saveReturned = "true" /\ loadedSince) => lastLoaded = lastSaved

\* The step is a call of load-settings (save-settings resets loadedSince)
IsLoadSettingsStep == loadedSince'

\* What C11 says of one call of load-settings
LoadOrder ==
    IF Readable(userFile)
    THEN /\ lastLoaded' = Value(JSONparse(userFile.text))
         /\ UNCHANGED <<userFile, repoFile>>
    ELSE IF Readable(repoFile)
    THEN /\ lastLoaded' = Value(JSONparse(repoFile.text))
         /\ userFile' \in { [exists |-> TRUE,
                             text |-> JSONstringify(JSONparse(repoFile.text))],
                            userFile, TruncatedFile }
         /\ UNCHANGED repoFile
    ELSE /\ lastLoaded' = Null
         /\ UNCHANGED <<userFile, repoFile>>

\* C11: load-settings returns the userData file whenever it exists and
\* parses; it reads the file next to the application only otherwise, then
\* tries to write what it read to the userData path and returns it whether
\* or not that write succeeds; it returns null when neither file yields
\* settings.
C11_LoadOrder == [][IsLoadSettingsStep => LoadOrder]_vars

\* The fallback file was returned although its migration failed
C11_Witness ==
    /\ loadedSince
    /\ userFile = TruncatedFile
    /\ Readable(repoFile)
    /\ lastLoaded = Value(JSONparse(repoFile.text))

----------------------------------------------------------------------------
(* Claims about a restart                                                  *)

\* initWithDelay has ended and loadSettings has finished
StartupCompleted == pc = "done" /\ loadPending = 0

\* The rendererEngine of the record in the userData settings file
PersistedEngine == JSONparse(userFile.text).rendererEngine

C13_EngineFollowsPersistedSettings ==
    (StartupCompleted /\ Readable(userFile) /\ initFallbackCalls = 0) =>
        /\ PersistedEngine = "2d" => engine # "three"
        /\ (PersistedEngine = "three" /\ promise = "resolved" /\ ~threeModulesPartial)
               => engine = "three"

----------------------------------------------------------------------------
(* Claims about speech input                                               *)

\* What C14 says of an onresult step with transcript t
PassThrough(t) ==
    /\ textInput' = t
    /\ UNCHANGED <<conversationHistory, settings, chatMessages, calls, turnOwner,
                   lastRequest, savePending, loadPending, isRecording>>

\* C14: recognition.onresult writes the transcript into the text field and
\* changes nothing else of the chat state: no sendMessage call, no request,
\* conversationHistory and settings as they were.
C14_SpeechPassThrough ==
    [][\A t \in InputTexts : recognition_onresult(t) => PassThrough(t)]_vars

\* A transcript is in the field while the recogniser still runs, and
\* nothing was sent
C14_Witness ==
    /\ isRecording
    /\ textInput = <<Space, "a", Space>>
    /\ calls = <<>>
    /\ conversationHistory = <<>>
    /\ lastRequest = NoRequest

----------------------------------------------------------------------------
(* Claims about the avatar import                                          *)

\* No call of loadVRM has rejected, and one that met a failure has failed
NoLoadRejected ==
    \A c \in DOMAIN vrmLoads :
        /\ vrmLoads[c].pc # "rejected"
        /\ vrmLoads[c].cause # "none" => vrmLoads[c].pc = "failed"

\* While every call so far has failed the status is the failure message
FailedShowsError ==
    (vrmLoads # <<>> /\ \A c \in DOMAIN vrmLoads : vrmLoads[c].pc = "failed")
        => avatarStatus = ErrorStatus

\* The step in which a call fails sets the failure message, and no step of
\* the import touches the history or the settings
FailingStep ==
    /\ \A c \in DOMAIN vrmLoads :
           (vrmLoads[c].pc # "failed" /\ vrmLoads'[c].pc = "failed")
               => avatarStatus' = ErrorStatus
    /\ UNCHANGED <<conversationHistory, settings>>

\* C15: loadVRM never rejects: a read error, a buffer shorter than 4 bytes,
\* a missing loader, the parser's error callback, the 30 s timeout and an
\* exception while the loaded scene is handled all end in the catch block,
\* which sets the status 'Error loading avatar: ...'; a callback that comes
\* after the failure does not change it; conversationHistory and settings
\* stay as they were.
C15_LoadVRMNeverRejects ==
    [](NoLoadRejected /\ FailedShowsError) /\ [][FailingStep]_vars

\* One call timed out and its loader called back afterwards, another threw
\* while the scene was handled
C15_Witness ==
    /\ Len(vrmLoads) = 2
    /\ vrmLoads[1].cause = "timeout"
    /\ ~vrmLoads[1].loaderBusy
    /\ vrmLoads[2].cause = "handler"
    /\ avatarStatus = ErrorStatus
    /\ conversationHistory # <<>>

----------------------------------------------------------------------------
(* Claims about the loader cascade                                         *)

\* Some strategy has attached the loader
SomeAttached == \E i \in DOMAIN attempts : attempts[i].outcome = "attached"

\* C16: the strategies are reached in the order 1 to 5; none is reached
\* when THREE.GLTFLoader is there on entry; the function returns at the
\* first strategy that attaches the loader, without reaching a later one;
\* a strategy that fails or throws is followed by the next one, so that the
\* function returns without a loader only after all five, and no exception
\* leaves it.
C16_CascadeOrder ==
    /\ \A i \in DOMAIN attempts : attempts[i].k = i
    /\ ~escaped
    /\ (gltfLoader /\ ~SomeAttached) => attempts = <<>>
    /\ \A i \in DOMAIN attempts :
           attempts[i].outcome = "attached" => i = Len(attempts) /\ strategy = Returned
    /\ (strategy = Returned /\ ~gltfLoader) => Len(attempts) = NumStrategies

\* Four strategies failed in their ways and the fifth attached the loader
C16_Witness ==
    /\ strategy = Returned
    /\ Len(attempts) = NumStrategies
    /\ attempts[1].outcome = "throws"
    /\ attempts[2].outcome = "throws"
    /\ attempts[3].outcome = "skipped"
    /\ attempts[4].outcome = "noAttach"
    /\ attempts[5].outcome = "attached"
    /\ gltfLoader

----------------------------------------------------------------------------
(* Claims about clearing the conversation                                  *)

\* Call c put its user turn into the history and a clearConversation took it
\* out since: only clearConversation removes turns, so the call was submitted
\* before the last clear exactly when its user turn is gone.
SubmittedBeforeClear(c) ==
    /\ calls[c].state \in {"pending", "answered", "failed"}
    /\ ~\E i \in DOMAIN conversationHistory :
           turnOwner[i] = c /\ conversationHistory[i].role = "user"

\* C17: the history never holds a turn of a message that was submitted
\* before the last clearConversation, also when the request of that message
\* was still in flight when the conversation was cleared.
C17_ClearIsolatesConversation ==
    \A i \in DOMAIN conversationHistory : ~SubmittedBeforeClear(turnOwner[i])

----------------------------------------------------------------------------
(* Claims about reporting a save                                           *)

\* saveSettings resumes in this step
IsSaveAnswerStep == savePending' < savePending

\* What the step that resumes saveSettings shows, against what the handler did
SaveReportStep ==
    IsSaveAnswerStep =>
        LET shown == chatMessages'[Len(chatMessages')].content IN
        /\ shown = SavedText => saveReturned = "true"
        /\ saveReturned = "false" => shown = SaveErrorText

\* C18: when saveSettings resumes it shows 'Settings saved successfully!'
\* only if the save-settings handler wrote the record to a file, and it
\* shows 'Error saving settings' when both writes failed.
C18_SuccessOnlyIfPersisted == [][SaveReportStep]_vars

----------------------------------------------------------------------------
(* Claims about the preview window                                         *)

\* C19: forward-to-preview creates the window when there is none; a buffer
\* for which it set returnValue to true is received by the page's
\* 'preview-load-buffer' listener (or still on its way, or the user closed
\* the window first), also when the window was created by that call; and
\* returnValue is false exactly when the buffer was not sent.
C19_ForwardedIsReceived ==
    \A i \in DOMAIN forwards :
        /\ forwards[i].returnValue => forwards[i].buffer \in {"inFlight", "received", "closed"}
        /\ ~forwards[i].returnValue <=> forwards[i].buffer = "notSent"

----------------------------------------------------------------------------
(* Claims about the autosave of the system prompt                          *)

\* Input event i is the last of its burst: every later one is at least
\* the debounce time after it
LastOfBurst(i) ==
    \A j \in DOMAIN inputEvents : j > i => inputEvents[j] - inputEvents[i] >= DebounceMs

\* The burst that ends with input event i is over: its timer has had its time
BurstOver(i) ==
    /\ LastOfBurst(i)
    /\ \/ now > inputEvents[i] + DebounceMs
       \/ now = inputEvents[i] + DebounceMs /\ ~TimerDue

\* The autosaves made at time t
SavesAt(t) == { k \in DOMAIN autosaves : autosaves[k].at = t }

\* C20: every burst of input events less than 600 ms apart is followed by
\* exactly one invocation of save-settings, 600 ms after its last event,
\* carrying the field's text of that time; there is no other autosave, and
\* opening the dialog again adds no listener and no timer.
C20_AutosaveDebounced ==
    /\ \A i \in DOMAIN inputEvents :
           BurstOver(i) => Cardinality(SavesAt(inputEvents[i] + DebounceMs)) = 1
    /\ \A k \in DOMAIN autosaves :
           /\ autosaves[k].template = autosaves[k].field
           /\ \E i \in DOMAIN inputEvents :
                  /\ autosaves[k].at = inputEvents[i] + DebounceMs
                  /\ \A j \in DOMAIN inputEvents :
                         j > i => inputEvents[j] >= autosaves[k].at
    /\ Len(autosaveListeners) <= 1
    /\ Cardinality(PendingTimers) <= 1

\* The dialog was opened twice, a burst of two events 200 ms apart changed
\* the template, and the one autosave came 600 ms after the second event
C20_Witness ==
    /\ settingsOpens = 2
    /\ Len(inputEvents) = 2
    /\ inputEvents[2] - inputEvents[1] = StepMs
    /\ Len(autosaves) = 1
    /\ autosaves[1].at = inputEvents[2] + DebounceMs
    /\ autosaves[1].template = <<"T", "1">>
    /\ settings.initialTemplate = <<"T", "1">>

----------------------------------------------------------------------------
(* Claims about importing an image under the 2D engine                     *)

\* C21: while the 2D engine is active (rendererEngine is '2d' and there is
\* no 3D scene), no loadVRM call started by 'vrm-selected' ends before it
\* has asked read-vrm-file for the file: each goes on to read the file and
\* to load2DFromBuffer.
C21_ImageImportUnder2D ==
    (settings.rendererEngine = "2d" /\ ~scene) =>
        \A c \in DOMAIN vrmLoads : vrmLoads[c].pc # "noScene"

----------------------------------------------------------------------------
(* Claims about the number of preview windows                              *)

\* At most one window is live, and previewWindow refers to it
OneLiveWindow ==
    /\ Cardinality(liveWindows) <= 1
    /\ previewRef = 0 \/ liveWindows = {previewRef}
    /\ liveWindows # {} => previewRef \in liveWindows

\* A window is constructed only when none is live
CreatedOnlyWhenNoneLive == windowsCreated' > windowsCreated => liveWindows = {}

----------------------------------------------------------------------------
(* Claims about the microphone flag                                        *)

\* What a toggleVoiceRecording step does to the flag and to the recogniser
ToggleStep ==
    toggleVoiceRecording =>
        /\ recognition # "object" => ~isRecording' /\ UNCHANGED sessionRunning
        /\ (recognition = "object" /\ isRecording) =>
               UNCHANGED <<isRecording, sessionRunning>>
        /\ (recognition = "object" /\ ~isRecording) =>
               ~sessionRunning /\ sessionRunning' /\ isRecording'

\* C23: isRecording is true exactly while a recognition session that a
\* toggle started has not had its onend; a toggle while it is true starts
\* no session, a toggle while it is false starts one, and without speech
\* recognition a toggle leaves isRecording false and starts nothing.
C23_FlagTracksSession ==
    [](isRecording <=> sessionRunning) /\ [][ToggleStep]_vars

\* A session is running with the flag set, and its transcript has arrived
C23_Witness ==
    /\ recognition = "object"
    /\ sessionRunning
    /\ isRecording
    /\ textInput = <<Space, "a", Space>>

----------------------------------------------------------------------------
(* Claims about a rejected model                                           *)

\* C24: a non-null this.vrm is a model whose scene is attached to the 3D
\* scene and not disposed; in particular a newly loaded model without
\* geometry leaves the avatar that was shown before attached.
C24_ShownAvatarSurvivesRejection == vrm # "null" => vrmShown

----------------------------------------------------------------------------
(* Claims about object URLs                                                *)

\* The URLs of the loads that are still between createObjectURL and their exit
URLsInUse ==
    { vrmLoads[c].url : c \in { d \in DOMAIN vrmLoads :
                                  vrmLoads[d].pc \in {"image"} \cup ParseStages } }

\* C25: every object URL made while loading an avatar is revoked once its
\* load has ended, on every exit path, unless it is the URL stored in
\* _currentOverlayURL; so at most one unrevoked overlay URL is left.
C25_ObjectURLsRevoked ==
    \A u \in liveURLs : u = currentOverlayURL \/ u \in URLsInUse

----------------------------------------------------------------------------
(* Claims about the bundled avatars                                        *)

\* C26: read-internal-avatar returns the contents of a file only if the
\* file lies inside assets/avatars, whatever fileName the renderer sent
\* ('..' segments and separators included), and throws otherwise.
C26_ReadConfinedToAvatars ==
    internalRead.returned => Inside(internalRead.fullPath, AvatarsDir)

====
